---- MODULE Spec2Model ----
(***************************************************************************)
(* Model of the crawler framework of the Open-Energy-Data-Server:          *)
(*   - the incremental synchronisation of ContinuousCrawler.crawl_temporal *)
(*     with the hooks of E2WatchCrawler and GieCrawler (SpecSync),         *)
(*   - the window splitting of the chunking crawl_from_to (SpecChunk),     *)
(*   - the day-by-day fetch of GieCrawler and EViewCrawler (SpecDaily),    *)
(*   - DownloadOnceCrawler.crawl_structural (SpecOnce),                    *)
(*   - set_metadata_only on public.metadata (SpecMeta),                    *)
(*   - the orchestrator loop over the registry (SpecCli).                  *)
(* Each specification owns a group of variables and leaves the others at   *)
(* their initial value.                                                    *)
(***************************************************************************)
EXTENDS Integers, Sequences, FiniteSets, TLC

(***************************************************************************)
(* Bounds of the model.                                                    *)
(***************************************************************************)
\* last instant of the model clock of SpecSync; one tick is one row interval
MaxTime == 5
\* the source floor TEMPORAL_START on the model clock
FloorTick == 1
\* the chunk length MAX_DELTA on the model clock
ChunkTicks == 2
\* a stored timestamp is counted up to this many rows
MaxCount == 2

\* python's None, and the NULL a MIN/MAX query returns on a table without rows
None == -1
NoData == -2

Time == 0..MaxTime
MaybeTime == Time \cup {None}

Max2(a, b) == IF a >= b THEN a ELSE b
Min2(a, b) == IF a <= b THEN a ELSE b
SetMax(S) == CHOOSE x \in S : \A y \in S : y <= x
SetMin(S) == CHOOSE x \in S : \A y \in S : x <= y

VARIABLES
    \* ---- SpecSync: one continuous crawler and its target table
    kind,       \* which crawler class runs: "e2watch" or "gie"
    pk,         \* the target table has PRIMARY KEY (timestamp, bilanzkreis_id)
    exists,     \* the target table exists in the database
    table,      \* number of stored rows per timestamp
    now,        \* datetime.now()
    pc,         \* "idle": no crawler process; "done": crawl_temporal returned or raised
    run,        \* what the last crawl_temporal call did
    \* ---- SpecChunk: one call of a chunking crawl_from_to
    chunk,
    \* ---- SpecDaily: one call of a day-by-day crawl_from_to
    daily,
    \* ---- SpecOnce: one download-once crawler and its target tables
    once,
    \* ---- SpecMeta: the table public.metadata
    meta,
    \* ---- SpecCli: one process of the orchestrator
    cli,
    \* ---- SpecHyper: one call of crawl_temporal, as the methods it calls
    hyper,
    \* ---- SpecDrift: one day-by-day append loop and its table
    drift,
    \* ---- SpecConstruct: one constructor call and what it left behind
    ctor,
    \* ---- SpecConcurrent: crawlers calling set_metadata_only at the same time
    conc,
    \* ---- SpecRegel: the loop of write_new_data_from_latest_date_to_today, one iteration at a time
    regel,
    \* ---- SpecStart: one call of start_crawler, one crawl method at a time
    start,
    \* ---- SpecEntsog: one call of EntsogCrawler.pullOperationalData
    entsog,
    \* ---- SpecEView: one call of EViewCrawler.crawl_from_to over the plants
    eview,
    \* ---- SpecJao: one call of JaoCrawler.crawl_from_to over horizons and corridors
    jao,
    \* ---- SpecRetry: one call of a retrying fetcher, one attempt at a time
    retry

syncVars == <<kind, pk, exists, table, now, pc, run>>

vars == <<kind, pk, exists, table, now, pc, run, chunk, daily, once, meta, cli, hyper, drift, ctor, conc, regel, start, entsog, eview, jao, retry>>

(***************************************************************************)
(* The mock upstream: a row for every instant from the source floor on.    *)
(***************************************************************************)
Upstream(t) == t >= FloorTick

EmptyTable == [t \in Time |-> 0]
Stored(tbl) == {t \in Time : tbl[t] > 0}

\* to_sql(..., if_exists="append") of the rows of a set of instants
to_sql_append(tbl, rows) ==
    [t \in Time |-> IF t \in rows THEN Min2(tbl[t] + 1, MaxCount) ELSE tbl[t]]

\* OFFSET_FROM_NOW = timedelta(hours=1): one row interval of the hourly e2watch table
OFFSET_FROM_NOW == 1

\* get_minimum_offset in ticks. GieCrawler inherits the one hour, which is
\* shorter than the one-day row interval of the gie tables: on day-aligned
\* instants "latest < end - 1h" is "latest < end".
get_minimum_offset(k) == IF k = "gie" THEN 0 ELSE OFFSET_FROM_NOW

\* E2WatchCrawler.get_latest_data / EcmwfCrawler.get_latest_data:
\* MAX(timestamp), "or TEMPORAL_START" on NULL, TEMPORAL_START on a missing table
E2LatestData(ex, tbl) ==
    IF ~ex \/ Stored(tbl) = {} THEN FloorTick ELSE SetMax(Stored(tbl))

E2FirstData(ex, tbl) ==
    IF ~ex \/ Stored(tbl) = {} THEN FloorTick ELSE SetMin(Stored(tbl))

\* GieCrawler.get_latest_data: TEMPORAL_START only when the query raises
\* (missing table); the NULL of an existing table without rows is returned as is
GieLatestData(ex, tbl) ==
    IF ~ex THEN FloorTick
    ELSE IF Stored(tbl) = {} THEN NoData ELSE SetMax(Stored(tbl))

GieFirstData(ex, tbl) ==
    IF ~ex THEN FloorTick
    ELSE IF Stored(tbl) = {} THEN NoData ELSE SetMin(Stored(tbl))

get_latest_data(k, ex, tbl) ==
    IF k = "gie" THEN GieLatestData(ex, tbl) ELSE E2LatestData(ex, tbl)

get_first_data(k, ex, tbl) ==
    IF k = "gie" THEN GieFirstData(ex, tbl) ELSE E2FirstData(ex, tbl)

(***************************************************************************)
(* A run threads a record through the calls of crawl_temporal:             *)
(*   tbl, ex   the table as written so far                                 *)
(*   calls     the windows passed to crawl_from_to, in order               *)
(*   periods   the sub-windows requested from upstream, in order           *)
(*   raised    an exception left crawl_temporal                            *)
(*   failed    a fetch failed and was only logged                          *)
(***************************************************************************)
\* E2WatchCrawler._crawl_single_period for one building; fail is the begin of
\* the sub-window whose HTTP requests fail (None: no request fails)
SinglePeriod(r, b, e, fail) ==
    LET last == E2LatestData(r.ex, r.tbl) + 1
        rows == {t \in Time : b <= t /\ t < e /\ Upstream(t)}
    IN  IF last > e THEN r
        ELSE IF b = fail
             THEN [r EXCEPT !.periods = Append(@, <<b, e>>), !.failed = TRUE]
        ELSE IF rows = {}
             THEN [r EXCEPT !.periods = Append(@, <<b, e>>)]
        ELSE IF pk /\ \E t \in rows : r.tbl[t] > 0
             THEN [r EXCEPT !.periods = Append(@, <<b, e>>), !.raised = TRUE]
        ELSE [r EXCEPT !.periods = Append(@, <<b, e>>),
                       !.tbl = to_sql_append(@, rows),
                       !.ex = TRUE]

RECURSIVE SliceLoop_Unclipped(_, _, _, _)
\* the loop without the clipping of the last slice to end
SliceLoop_Unclipped(sliced_begin, sliced_end, end, delta) ==
    IF end > sliced_end
    THEN <<<<sliced_begin, sliced_end>>>>
         \o SliceLoop_Unclipped(sliced_end, sliced_end + delta, end, delta)
    ELSE <<<<sliced_begin, sliced_end>>>>

\* the while loop of the chunking crawl_from_to and the call after it:
\* the sub-windows handed to _crawl_single_period, in order
RECURSIVE SliceLoop(_, _, _, _)
SliceLoop(sliced_begin, sliced_end, end, delta) ==
    IF end > sliced_end
    THEN <<<<sliced_begin, sliced_end>>>>
         \o SliceLoop(sliced_end, sliced_end + delta, end, delta)
    ELSE <<<<sliced_begin, end>>>>

\* sliced_begin = begin; sliced_end = sliced_begin + MAX_DELTA; the loop
Slices(begin, end, delta) == SliceLoop(begin, begin + delta, end, delta)

RECURSIVE E2Periods(_, _, _, _)
\* _crawl_single_period on the sub-windows in order; an exception ends the loop
E2Periods(r, slices, i, fail) ==
    IF i > Len(slices) \/ r.raised THEN r
    ELSE E2Periods(SinglePeriod(r, slices[i][1], slices[i][2], fail),
                   slices, i + 1, fail)

\* E2WatchCrawler.crawl_from_to
E2CrawlFromTo(r, begin, end, fail) ==
    LET b == IF begin < FloorTick THEN FloorTick ELSE begin
        data_available_until == now - get_minimum_offset("e2watch")
        e == IF end > data_available_until THEN data_available_until ELSE end
    IN  E2Periods(r, Slices(b, e, ChunkTicks), 1, fail)

RECURSIVE GieDays(_, _, _, _)
\* GieCrawler.crawl_data: collect_gie_date for every day of
\* pd.date_range(begin, end), both ends included; a failing day raises
GieDays(r, day, end, fail) ==
    IF day > end THEN r
    ELSE IF day = fail
         THEN [r EXCEPT !.periods = Append(@, <<day, day + 1>>), !.raised = TRUE]
    ELSE IF ~Upstream(day) \/ day > MaxTime
         THEN GieDays([r EXCEPT !.periods = Append(@, <<day, day + 1>>)],
                      day + 1, end, fail)
    ELSE GieDays([r EXCEPT !.periods = Append(@, <<day, day + 1>>),
                           !.tbl = to_sql_append(@, {day}),
                           !.ex = TRUE],
                 day + 1, end, fail)

\* crawl_from_to taking one day too many off the end
GieCrawlFromTo_EndsEarly(r, begin, end, fail) == GieDays(r, begin, end - 2, fail)

\* GieCrawler.crawl_from_to: end = end - timedelta(days=1)
GieCrawlFromTo(r, begin, end, fail) == GieDays(r, begin, end - 1, fail)

crawl_from_to(k, r, begin, end, fail) ==
    LET rc == [r EXCEPT !.calls = Append(@, <<begin, end>>)]
    IN  IF k = "gie" THEN GieCrawlFromTo(rc, begin, end, fail)
        ELSE E2CrawlFromTo(rc, begin, end, fail)

\* ContinuousCrawler.crawl_temporal; comparing None with a datetime raises TypeError
crawl_temporal(k, r0, begin, end_arg, fail) ==
    LET latest == get_latest_data(k, r0.ex, r0.tbl)
        first == get_first_data(k, r0.ex, r0.tbl)
        r1 == IF begin = None THEN r0
              ELSE IF first = NoData THEN [r0 EXCEPT !.raised = TRUE]
              ELSE IF begin < first THEN crawl_from_to(k, r0, begin, first, fail)
              ELSE r0
        end == IF end_arg = None THEN now ELSE end_arg
        r2 == IF r1.raised THEN r1
              ELSE IF latest = NoData THEN [r1 EXCEPT !.raised = TRUE]
              ELSE IF latest < end - get_minimum_offset(k)
                   THEN crawl_from_to(k, r1, latest, end, fail)
              ELSE r1
    IN  IF r2.raised THEN r2 ELSE [r2 EXCEPT !.hyper = @ + 1]

NoRun ==
    [begin |-> None, end |-> None, fail |-> None, latest |-> None,
     pre |-> EmptyTable, preExists |-> FALSE,
     calls |-> <<>>, periods |-> <<>>, raised |-> FALSE, failed |-> FALSE,
     hyper |-> 0]

(***************************************************************************)
(* The value of each group of variables while another specification runs.  *)
(***************************************************************************)
SyncRest ==
    /\ kind = "e2watch" /\ pk = FALSE /\ exists = FALSE /\ table = EmptyTable
    /\ now = 0 /\ pc = "rest" /\ run = NoRun

ChunkRest == [done |-> FALSE]
DailyRest == [done |-> FALSE]

OnceRest == [log |-> <<>>]
MetaRest == [rows |-> <<>>]
CliRest == [engines |-> <<>>]
HyperRest == [events |-> <<>>]
DriftRest == [rows |-> <<>>]
ConstructRest == [engine |-> <<>>]
ConcurrentRest == [rows |-> <<>>]
RegelRest == [pc |-> "rest"]
StartRest == [events |-> <<>>]
EntsogRest == [done |-> FALSE]
EViewRest == [done |-> FALSE]
JaoRest == [done |-> FALSE]
RetryRest == [pc |-> "rest"]

notSync == <<chunk, daily, once, meta, cli, hyper, drift, ctor, conc, regel, start, entsog, eview, jao, retry>>
notChunk == <<syncVars, daily, once, meta, cli, hyper, drift, ctor, conc, regel, start, entsog, eview, jao, retry>>
notDaily == <<syncVars, chunk, once, meta, cli, hyper, drift, ctor, conc, regel, start, entsog, eview, jao, retry>>
notOnce == <<syncVars, chunk, daily, meta, cli, hyper, drift, ctor, conc, regel, start, entsog, eview, jao, retry>>
notMeta == <<syncVars, chunk, daily, once, cli, hyper, drift, ctor, conc, regel, start, entsog, eview, jao, retry>>
notCli == <<syncVars, chunk, daily, once, meta, hyper, drift, ctor, conc, regel, start, entsog, eview, jao, retry>>
notHyper == <<syncVars, chunk, daily, once, meta, cli, drift, ctor, conc, regel, start, entsog, eview, jao, retry>>
notDrift == <<syncVars, chunk, daily, once, meta, cli, hyper, ctor, conc, regel, start, entsog, eview, jao, retry>>
notConstruct == <<syncVars, chunk, daily, once, meta, cli, hyper, drift, conc, regel, start, entsog, eview, jao, retry>>
notConcurrent == <<syncVars, chunk, daily, once, meta, cli, hyper, drift, ctor, regel, start, entsog, eview, jao, retry>>
notRegel == <<syncVars, chunk, daily, once, meta, cli, hyper, drift, ctor, conc, start, entsog, eview, jao, retry>>
notStart == <<syncVars, chunk, daily, once, meta, cli, hyper, drift, ctor, conc, regel, entsog, eview, jao, retry>>
notEntsog == <<syncVars, chunk, daily, once, meta, cli, hyper, drift, ctor, conc, regel, start, eview, jao, retry>>
notEView == <<syncVars, chunk, daily, once, meta, cli, hyper, drift, ctor, conc, regel, start, entsog, jao, retry>>
notJao == <<syncVars, chunk, daily, once, meta, cli, hyper, drift, ctor, conc, regel, start, entsog, eview, retry>>
notRetry == <<syncVars, chunk, daily, once, meta, cli, hyper, drift, ctor, conc, regel, start, entsog, eview, jao>>

(***************************************************************************)
(* SpecSync                                                                *)
(***************************************************************************)
\* After construction: E2WatchCrawler.__init__ has run create_table_if_not_exists,
\* whose CREATE TABLE with the primary key is rolled back when create_hypertable
\* is not available; the gie tables are missing or exist without rows.
InitSync ==
    /\ retry = RetryRest
    /\ jao = JaoRest
    /\ eview = EViewRest
    /\ entsog = EntsogRest
    /\ start = StartRest
    /\ regel = RegelRest
    /\ conc = ConcurrentRest
    /\ kind \in {"e2watch", "gie"}
    /\ pk \in BOOLEAN
    /\ (kind = "gie") => ~pk
    /\ exists \in BOOLEAN
    /\ (kind = "e2watch") => (exists = pk)
    /\ table = EmptyTable
    /\ now \in 2..MaxTime
    /\ pc = "idle"
    /\ run = NoRun
    /\ chunk = ChunkRest /\ daily = DailyRest /\ once = OnceRest
    /\ meta = MetaRest /\ cli = CliRest /\ hyper = HyperRest
    /\ drift = DriftRest /\ ctor = ConstructRest

\* one call crawl_temporal(begin, end) by start_crawler
CrawlTemporal ==
    /\ pc = "idle"
    /\ \E begin \in MaybeTime, end \in MaybeTime, fail \in MaybeTime :
         LET r0 == [tbl |-> table, ex |-> exists, calls |-> <<>>, periods |-> <<>>,
                    raised |-> FALSE, failed |-> FALSE, hyper |-> 0]
             r == crawl_temporal(kind, r0, begin, end, fail)
         IN  /\ table' = r.tbl
             /\ exists' = r.ex
             /\ run' = [begin |-> begin, end |-> end, fail |-> fail,
                        latest |-> get_latest_data(kind, exists, table),
                        pre |-> table, preExists |-> exists,
                        calls |-> r.calls, periods |-> r.periods,
                        raised |-> r.raised, failed |-> r.failed, hyper |-> r.hyper]
    /\ pc' = "done"
    /\ UNCHANGED <<kind, pk, now>>
    /\ UNCHANGED notSync

\* the process ends; the next one starts with the database as it was left
ProcessExit ==
    /\ pc = "done"
    /\ pc' = "idle"
    /\ run' = NoRun
    /\ UNCHANGED <<kind, pk, exists, table, now>>
    /\ UNCHANGED notSync

\* time passes between two processes
Tick ==
    /\ pc = "idle"
    /\ now < MaxTime
    /\ now' = now + 1
    /\ UNCHANGED <<kind, pk, exists, table, pc, run>>
    /\ UNCHANGED notSync

NextSync == CrawlTemporal \/ ProcessExit \/ Tick

SpecSync == InitSync /\ [][NextSync]_vars

(***************************************************************************)
(* Claims about crawl_temporal (SpecSync)                                  *)
(***************************************************************************)
\* the end crawl_temporal works with: "if not end: end = datetime.now()"
RunEnd == IF run.end = None THEN now ELSE run.end

\* the stored timestamps have no hole between the smallest and the largest
Contiguous(tbl) ==
    \A t \in Time :
        (Stored(tbl) # {} /\ SetMin(Stored(tbl)) <= t /\ t <= SetMax(Stored(tbl))
         /\ Upstream(t)) => tbl[t] > 0

\* crawl_temporal returned, no fetch failed
Succeeded == pc = "done" /\ ~run.raised /\ ~run.failed

\* C1: after crawl_temporal(begin, end) returns without raising against the
\* mock upstream, the smallest stored timestamp is <= max(begin, floor) and
\* the largest stored timestamp is >= end - minimum_offset.
C1_StoredRangeCoversRequest ==
    (Succeeded /\ run.begin # None /\ run.end # None /\ Stored(table) # {}) =>
        /\ SetMin(Stored(table)) <= Max2(run.begin, FloorTick)
        /\ SetMax(Stored(table)) >= run.end - get_minimum_offset(kind)

\* every instant from the floor up to the end of the run minus the offset (now
\* minus offset when end is now) for which upstream has a row is stored
CoveredFromFloor ==
    \A t \in Time :
        (FloorTick <= t /\ t < Min2(RunEnd, now) - get_minimum_offset(kind)
         /\ Upstream(t)) => table[t] > 0

PreGapFree ==
    \/ Stored(run.pre) = {}
    \/ (Contiguous(run.pre) /\ SetMin(Stored(run.pre)) = FloorTick)

PreFirst == SetMin(Stored(run.pre))
PreL == SetMax(Stored(run.pre)) + 1

\* C3: with [first, L) stored, begin < first and L < end - minimum_offset,
\* crawl_from_to is called exactly twice: with [begin, first), then [L, end).
C3_BackfillThenForwardFromL ==
    (/\ Succeeded
     /\ Stored(run.pre) # {} /\ Contiguous(run.pre)
     /\ run.begin # None /\ run.begin < PreFirst
     /\ PreL < RunEnd - get_minimum_offset(kind)) =>
        run.calls = << <<run.begin, PreFirst>>, <<PreL, RunEnd>> >>

\* C4: on an empty or missing table get_latest_data returns the floor, and
\* crawl_temporal(begin=None, end=E) with floor < E - minimum_offset calls
\* crawl_from_to exactly once, with [floor, E).
C4_EmptyTableOneWindowFromFloor ==
    (/\ pc = "done"
     /\ Stored(run.pre) = {}
     /\ run.begin = None /\ run.end # None
     /\ FloorTick < run.end - get_minimum_offset(kind)) =>
        /\ run.latest = FloorTick
        /\ run.calls = << <<FloorTick, run.end>> >>

\* C17: the probes of a crawl_temporal call on a table that is missing or
\* holds no row return the source floor, both get_latest_data and
\* get_first_data: a missing table raises nothing and an empty table counts
\* as no data.
C17_ProbesReturnFloorWithoutData ==
    (pc = "done" /\ (~run.preExists \/ Stored(run.pre) = {})) =>
        /\ run.latest = FloorTick
        /\ get_first_data(kind, run.preExists, run.pre) = FloorTick

\* C23: a crawl_temporal run in which no fetch fails writes no timestamp
\* that the table already holds: over any sequence of such runs every
\* timestamp is written at most once.
C23_NoTimestampWrittenTwice ==
    [][(pc = "idle" /\ pc' = "done" /\ run'.fail = None) =>
          \A t \in Time : table[t] >= 1 => table'[t] = table[t]]_vars

\* C24: when the caller passes both begin and end, every window that
\* crawl_temporal passes to crawl_from_to lies inside [begin, end).
C24_WindowsInsideRequest ==
    (pc = "done" /\ run.begin # None /\ run.end # None /\ run.begin < run.end) =>
        \A n \in 1..Len(run.calls) :
            /\ run.begin <= run.calls[n][1]
            /\ run.calls[n][2] <= run.end

(***************************************************************************)
(* SpecRerun: crawl_temporal(end=E) twice in a row by the same crawler,    *)
(* with no time passing and no fetch failing, on the variables of SpecSync *)
(***************************************************************************)
\* the rows [floor, m] an earlier run left in the table
Prefix(m) == [t \in Time |-> IF FloorTick <= t /\ t <= m THEN 1 ELSE 0]

InitRerun ==
    /\ retry = RetryRest
    /\ jao = JaoRest
    /\ eview = EViewRest
    /\ entsog = EntsogRest
    /\ start = StartRest
    /\ regel = RegelRest
    /\ conc = ConcurrentRest
    /\ kind \in {"e2watch", "gie"}
    /\ pk \in BOOLEAN
    /\ (kind = "gie") => ~pk
    /\ now \in 2..MaxTime
    /\ \E m \in 0..MaxTime :
         /\ m <= now - 1 - get_minimum_offset(kind)
         /\ table = Prefix(m)
    /\ exists \in BOOLEAN
    /\ (kind = "e2watch") => (exists = (pk \/ Stored(table) # {}))
    /\ (Stored(table) # {}) => exists
    /\ pc = "idle"
    /\ run = NoRun
    /\ chunk = ChunkRest /\ daily = DailyRest /\ once = OnceRest
    /\ meta = MetaRest /\ cli = CliRest /\ hyper = HyperRest
    /\ drift = DriftRest /\ ctor = ConstructRest

\* crawl_temporal(end=end) with every fetch successful
RerunCall(end, next) ==
    LET r0 == [tbl |-> table, ex |-> exists, calls |-> <<>>, periods |-> <<>>,
               raised |-> FALSE, failed |-> FALSE, hyper |-> 0]
        r == crawl_temporal(kind, r0, None, end, None)
    IN  /\ table' = r.tbl
        /\ exists' = r.ex
        /\ run' = [begin |-> None, end |-> end, fail |-> None,
                   latest |-> get_latest_data(kind, exists, table),
                   pre |-> table, preExists |-> exists,
                   calls |-> r.calls, periods |-> r.periods,
                   raised |-> r.raised, failed |-> r.failed, hyper |-> r.hyper]
        /\ pc' = next
        /\ UNCHANGED <<kind, pk, now>>
        /\ UNCHANGED notSync

\* the first call, with an end not after now (None is now)
RerunFirst ==
    /\ pc = "idle"
    /\ \E end \in MaybeTime : (end = None \/ end <= now) /\ RerunCall(end, "first")

\* the call that follows at once, with the same end
RerunSecond ==
    /\ pc = "first" /\ ~run.raised
    /\ RerunCall(run.end, "second")

NextRerun == RerunFirst \/ RerunSecond

SpecRerun == InitRerun /\ [][NextRerun]_vars

\* C13: a crawl_temporal(end=E) that follows at once on a crawl_temporal(end=E)
\* in which every fetch succeeded calls crawl_from_to zero times and leaves
\* the table as it was.
C13_RerunIsNoOp ==
    (pc = "second") => (run.calls = <<>> /\ ~run.raised /\ table = run.pre)

(***************************************************************************)
(* SpecChunk: the window splitting of SmardCrawler.crawl_from_to and       *)
(* E2WatchCrawler.crawl_from_to, on a clock of hours, for every begin, end *)
(* and chunk length                                                        *)
(***************************************************************************)
\* last hour of the clock, and the longest chunk length tried
MaxChunkTime == 12
MaxDelta == 4

\* smard: OFFSET_FROM_NOW = timedelta(hours=-6), added to datetime.now()
SMARD_OFFSET_FROM_NOW == 0 - 6

\* "if begin < TEMPORAL_START: begin = TEMPORAL_START"
ClampBegin(begin) == IF begin < FloorTick THEN FloorTick ELSE begin

\* smard: "if end > datetime.now() + OFFSET_FROM_NOW: end = ..."
\* e2watch: "if end > data_available_until: end = data_available_until"
ClampEnd(crawler, end, nowv) ==
    LET until == IF crawler = "smard" THEN nowv + SMARD_OFFSET_FROM_NOW
                 ELSE nowv - OFFSET_FROM_NOW
    IN  IF end > until THEN until ELSE end

\* the sub-window whose fetch fails is one of the first MaxFailIndex (0: none)
MaxFailIndex == 3

RECURSIVE ChunkPeriods(_, _, _, _, _, _)
\* _crawl_single_period on the sub-windows in order, for one building and an
\* e2watch table without rows; r = [requested, latest, logged, raised].
\*   smard: the except branch logs and raises again.
\*   e2watch: a sub-window that ends before the newest stored row + 1h is
\*     skipped; an HTTP error is logged and the building skipped
\*     (get_data_per_building), a malformed body raises in json.loads.
ChunkPeriods(crawler, slices, i, fail, failure, r) ==
    IF i > Len(slices) \/ r.raised THEN r
    ELSE LET b == slices[i][1]
             e == slices[i][2]
             req == [r EXCEPT !.requested = Append(@, i)]
         IN  IF crawler = "e2watch" /\ r.latest + 1 > e
             THEN ChunkPeriods(crawler, slices, i + 1, fail, failure, r)
             ELSE IF i = fail /\ (crawler = "smard" \/ failure = "malformed")
             THEN [req EXCEPT !.logged = (crawler = "smard"), !.raised = TRUE]
             ELSE IF i = fail
             THEN ChunkPeriods(crawler, slices, i + 1, fail, failure,
                               [req EXCEPT !.logged = TRUE])
             ELSE ChunkPeriods(crawler, slices, i + 1, fail, failure,
                               [req EXCEPT !.latest = IF e - 1 > @ /\ e > b
                                                      THEN e - 1 ELSE @])

InitChunk ==
    /\ retry = RetryRest
    /\ jao = JaoRest
    /\ eview = EViewRest
    /\ entsog = EntsogRest
    /\ start = StartRest
    /\ regel = RegelRest
    /\ conc = ConcurrentRest
    /\ SyncRest /\ daily = DailyRest /\ once = OnceRest
    /\ meta = MetaRest /\ cli = CliRest /\ hyper = HyperRest
    /\ drift = DriftRest /\ ctor = ConstructRest
    /\ \E crawler \in {"smard", "e2watch"}, begin \in 0..MaxChunkTime,
          end \in 0..MaxChunkTime, delta \in 1..MaxDelta,
          nowv \in (MaxChunkTime - 4)..(MaxChunkTime + 6),
          fail \in 0..MaxFailIndex, failure \in {"http", "malformed"} :
         /\ (fail = 0) => (failure = "http")
         /\ chunk = [done |-> FALSE, crawler |-> crawler, begin |-> begin, end |-> end,
                     delta |-> delta, now |-> nowv, fail |-> fail, failure |-> failure,
                     window |-> <<>>, slices |-> <<>>, requested |-> <<>>,
                     logged |-> FALSE, raised |-> FALSE]

\* crawl_from_to(begin, end): clamp, then hand the sub-windows to
\* _crawl_single_period
ChunkCrawlFromTo ==
    /\ ~chunk.done
    /\ LET b == ClampBegin(chunk.begin)
           e == ClampEnd(chunk.crawler, chunk.end, chunk.now)
           sl == Slices(b, e, chunk.delta)
           r == ChunkPeriods(chunk.crawler, sl, 1, chunk.fail, chunk.failure,
                             [requested |-> <<>>, latest |-> FloorTick,
                              logged |-> FALSE, raised |-> FALSE])
       IN  chunk' = [chunk EXCEPT !.done = TRUE, !.window = <<b, e>>,
                                  !.slices = sl, !.requested = r.requested,
                                  !.logged = r.logged, !.raised = r.raised]
    /\ UNCHANGED notChunk

NextChunk == ChunkCrawlFromTo

SpecChunk == InitChunk /\ [][NextChunk]_vars

\* the instants of a half-open window
Instants(w) == {t \in -10..(MaxChunkTime + 10) : w[1] <= t /\ t < w[2]}

\* C5: the sub-windows are contiguous, non-overlapping, each at most delta
\* long, cover exactly the clamped window [begin, end), and the last one ends
\* at end, also when end - begin is not a multiple of delta.
C5_SlicesPartitionWindow ==
    chunk.done =>
        LET sl == chunk.slices
            n == Len(sl)
        IN  /\ n >= 1
            /\ sl[1][1] = chunk.window[1]
            /\ sl[n][2] = chunk.window[2]
            /\ \A i \in 1..(n - 1) : sl[i + 1][1] = sl[i][2]
            /\ \A i \in 1..n : sl[i][2] - sl[i][1] <= chunk.delta
            /\ \A i, j \in 1..n : i # j => Instants(sl[i]) \cap Instants(sl[j]) = {}
            /\ UNION {Instants(sl[i]) : i \in 1..n} = Instants(chunk.window)

\* a window of at least three sub-windows whose length is no multiple of delta
C5_Witness ==
    /\ chunk.done
    /\ Len(chunk.slices) >= 3
    /\ (chunk.window[2] - chunk.window[1]) % chunk.delta # 0
    /\ chunk.end > chunk.window[2]

\* C12: when the fetch of one sub-window of a chunked crawl_from_to fails,
\* the failure is logged, crawl_from_to does not raise, and every later
\* sub-window of the call is still requested.
C12_FailedChunkDoesNotAbort ==
    (chunk.done /\ \E k \in 1..Len(chunk.requested) : chunk.requested[k] = chunk.fail) =>
        /\ chunk.logged
        /\ ~chunk.raised
        /\ \A i \in 1..Len(chunk.slices) :
             i > chunk.fail => \E k \in 1..Len(chunk.requested) : chunk.requested[k] = i

\* C25: every sub-window requested from upstream is well-ordered
\* (begin < end), and a clamped window that is empty or inverted is not
\* requested at all.
C25_RequestedWindowsWellOrdered ==
    chunk.done =>
        /\ \A k \in 1..Len(chunk.requested) :
              chunk.slices[chunk.requested[k]][1] < chunk.slices[chunk.requested[k]][2]
        /\ chunk.window[1] >= chunk.window[2] => chunk.requested = <<>>

(***************************************************************************)
(* SpecDaily: the day-by-day crawl_from_to of GieCrawler and EViewCrawler, *)
(* on a clock of hours                                                     *)
(***************************************************************************)
\* last hour of the clock
MaxHours == 72

\* timedelta(days=1) in hours
DAY == 24

\* strftime("%Y-%m-%d") / strftime("%d.%m.%Y"): the calendar day of an instant
DayOf(t) == t \div DAY

RECURSIVE date_range(_, _)
\* pd.date_range(begin, end): daily steps from begin, both ends included
date_range(begin, end) ==
    IF begin > end THEN <<>> ELSE <<begin>> \o date_range(begin + DAY, end)

\* the calendar days requested, in order
FetchDays(dates) == [i \in 1..Len(dates) |-> DayOf(dates[i])]

\* GieCrawler.crawl_from_to and crawl_data: the days of
\* pd.date_range(begin, end - timedelta(days=1))
GieFetchDays(begin, end) == FetchDays(date_range(begin, end - DAY))

\* EViewCrawler.crawl_from_to with a begin, and crawl_unit: end is lowered to
\* datetime.today() - timedelta(days=1), then the days of pd.date_range(begin, end)
EViewFetchDays(begin, end, today) ==
    LET e == IF end > today - DAY THEN today - DAY ELSE end
    IN  FetchDays(date_range(begin, e))

\* the timestamps of the rows a request for one calendar day returns and
\* to_sql appends: gie has one row per gas day (gasdaystart), the eview
\* export has the rows of the whole day
RowsOfDay(crawler, d) ==
    IF crawler = "gie" THEN {d * DAY}
    ELSE {t \in 0..(MaxHours + 2 * DAY) : DayOf(t) = d}

InitDaily ==
    /\ retry = RetryRest
    /\ jao = JaoRest
    /\ eview = EViewRest
    /\ entsog = EntsogRest
    /\ start = StartRest
    /\ regel = RegelRest
    /\ conc = ConcurrentRest
    /\ SyncRest /\ chunk = ChunkRest /\ once = OnceRest
    /\ meta = MetaRest /\ cli = CliRest /\ hyper = HyperRest
    /\ drift = DriftRest /\ ctor = ConstructRest
    /\ \E crawler \in {"gie", "eview"}, begin \in 0..MaxHours, end \in 0..MaxHours,
          today \in {MaxHours - DAY, MaxHours + DAY + 6} :
         daily = [done |-> FALSE, crawler |-> crawler, begin |-> begin, end |-> end,
                  today |-> today, days |-> <<>>, rows |-> {}]

\* one call crawl_from_to(begin, end)
DailyCrawlFromTo ==
    /\ ~daily.done
    /\ LET days == IF daily.crawler = "gie"
                   THEN GieFetchDays(daily.begin, daily.end)
                   ELSE EViewFetchDays(daily.begin, daily.end, daily.today)
       IN  daily' = [daily EXCEPT
                        !.done = TRUE, !.days = days,
                        !.rows = UNION {RowsOfDay(daily.crawler, days[i]) :
                                            i \in 1..Len(days)}]
    /\ UNCHANGED notDaily

NextDaily == DailyCrawlFromTo

SpecDaily == InitDaily /\ [][NextDaily]_vars

\* C6: crawl_from_to(begin, end) requests and writes no row with timestamp
\* >= end; the day-by-day crawlers never fetch the day that contains end.
C6_NoRowAtOrAfterEnd ==
    daily.done =>
        /\ \A t \in daily.rows : t < daily.end
        /\ \A i \in 1..Len(daily.days) : daily.days[i] # DayOf(daily.end)

(***************************************************************************)
(* SpecOnce: crawl_structural of the download-once crawlers.  The target   *)
(* tables of a crawler are one sequence of snapshots: every element is one *)
(* full copy of the rows of the upstream release it names.                 *)
(***************************************************************************)
\* calls of crawl_structural in one behaviour, and upstream releases
MaxCalls == 3
MaxRelease == 2

OnceCrawlers == {"ninja", "opsd", "mastr", "e2watch"}

\* structure_exists: "SELECT 1 from <table> limit 1" is 1 when the table holds
\* a row, None when it holds none, and raises when it is missing;
\* MastrDownloader keeps DownloadOnceCrawler.structure_exists, which is False
structure_exists(crawler, ex, rows) ==
    IF crawler = "mastr" THEN FALSE ELSE ex /\ rows # <<>>

\* E2WatchCrawler.get_all_buildings: the rows of the buildings table when it
\* holds any, else the packaged csv; [fetched, rows]
get_all_buildings(ex, rows, release) ==
    IF ex /\ rows # <<>> THEN [fetched |-> FALSE, rows |-> rows]
    ELSE [fetched |-> TRUE, rows |-> <<release>>]

\* the body of "if not self.structure_exists() or recreate": [fetched, rows]
\*   ninja, opsd: download, to_sql(if_exists="replace")
\*   mastr: create_db_from_export, to_sql(if_exists="append"), and on its
\*          failure read the table, concat and replace
\*   e2watch: get_all_buildings, to_sql(if_exists="replace")
FetchAndWrite(crawler, ex, rows, release) ==
    IF crawler = "mastr" THEN [fetched |-> TRUE, rows |-> rows \o <<release>>]
    ELSE IF crawler = "e2watch" THEN get_all_buildings(ex, rows, release)
    ELSE [fetched |-> TRUE, rows |-> <<release>>]

\* crawl_structural(recreate): what the call did and the tables after it
crawl_structural(crawler, ex, rows, release, recreate) ==
    IF ~structure_exists(crawler, ex, rows) \/ recreate
    THEN LET w == FetchAndWrite(crawler, ex, rows, release)
         IN  [fetched |-> w.fetched, wrote |-> TRUE, ex |-> TRUE, rows |-> w.rows]
    ELSE [fetched |-> FALSE, wrote |-> FALSE, ex |-> ex, rows |-> rows]

\* the tables are missing, or exist without rows (E2WatchCrawler.__init__
\* creates the buildings table)
InitOnce ==
    /\ retry = RetryRest
    /\ jao = JaoRest
    /\ eview = EViewRest
    /\ entsog = EntsogRest
    /\ start = StartRest
    /\ regel = RegelRest
    /\ conc = ConcurrentRest
    /\ SyncRest /\ chunk = ChunkRest /\ daily = DailyRest
    /\ meta = MetaRest /\ cli = CliRest /\ hyper = HyperRest
    /\ drift = DriftRest /\ ctor = ConstructRest
    /\ \E crawler \in OnceCrawlers, ex \in BOOLEAN :
         once = [crawler |-> crawler, ex |-> ex, rows |-> <<>>, release |-> 1,
                 log |-> <<>>]

CrawlStructural ==
    /\ Len(once.log) < MaxCalls
    /\ \E recreate \in BOOLEAN :
         LET c == crawl_structural(once.crawler, once.ex, once.rows,
                                   once.release, recreate)
         IN  once' = [once EXCEPT
                         !.ex = c.ex, !.rows = c.rows,
                         !.log = Append(@, [recreate |-> recreate,
                                            exBefore |-> once.ex,
                                            before |-> once.rows,
                                            release |-> once.release,
                                            fetched |-> c.fetched,
                                            wrote |-> c.wrote,
                                            after |-> c.rows])]
    /\ UNCHANGED notOnce

\* the source publishes a new snapshot
UpstreamRelease ==
    /\ once.log # <<>> /\ Len(once.log) < MaxCalls
    /\ once.release < MaxRelease
    /\ once' = [once EXCEPT !.release = @ + 1]
    /\ UNCHANGED notOnce

NextOnce == CrawlStructural \/ UpstreamRelease

SpecOnce == InitOnce /\ [][NextOnce]_vars

\* C7: starting from absent tables, two consecutive crawl_structural(recreate
\* = False) perform exactly one fetch-and-write: the first fetches and
\* populates, the second fetches nothing, writes nothing and leaves the rows.
C7_SecondCallIsNoOp ==
    \A i \in 1..(Len(once.log) - 1) :
        (/\ ~once.log[i].exBefore
         /\ ~once.log[i].recreate /\ ~once.log[i + 1].recreate) =>
            /\ once.log[i].fetched /\ once.log[i].wrote
            /\ ~once.log[i + 1].fetched /\ ~once.log[i + 1].wrote
            /\ once.log[i + 1].after = once.log[i].after

\* C8: from every state crawl_structural(recreate=True) performs a full fetch
\* and replaces the target tables, whatever structure_exists returns.
C8_RecreateFetchesAndReplaces ==
    \A i \in 1..Len(once.log) :
        once.log[i].recreate =>
            /\ once.log[i].fetched
            /\ once.log[i].after = <<once.log[i].release>>

(***************************************************************************)
(* SpecMeta: set_metadata_only on public.metadata.  The table is a         *)
(* sequence of rows; column values are strings, "None" is NULL and         *)
(* "absent" marks a key the caller left out of metadata_info.              *)
(***************************************************************************)
\* calls of set_metadata_only in one behaviour
MaxUpserts == 3

Schemas == {"gie", "opsd"}

\* the metadata_info mappings the crawlers pass
MetadataInfos ==
    [schema_name : Schemas, data_source : {"https://source"},
     license : {"CC-BY-4.0"}, description : {"d1", "d2"},
     contact : {"absent", "mail"}, temporal_start : {"absent", "2012-01-01"},
     temporal_end : {"absent"}, data_date : {"2024-06-12"}]

\* "if key not in metadata_info.keys(): metadata_info[key] = None", and
\* data_date = date.today()
WithDefaults(info) ==
    [info EXCEPT
        !.contact = IF @ = "absent" THEN "None" ELSE @,
        !.temporal_start = IF @ = "absent" THEN "None" ELSE @,
        !.temporal_end = IF @ = "absent" THEN "None" ELSE @,
        !.data_date = IF @ = "absent" THEN "today" ELSE @]

\* the row INSERT adds: the columns not listed are NULL
NewRow(info) ==
    [schema_name |-> info.schema_name, data_date |-> info.data_date,
     data_source |-> info.data_source, license |-> info.license,
     description |-> info.description, contact |-> info.contact,
     temporal_start |-> info.temporal_start, temporal_end |-> info.temporal_end,
     tables |-> "None", size |-> "None", crawl_date |-> "None"]

\* a plain INSERT, were there no ON CONFLICT clause and no unique key
InsertOnConflictUpdate_PlainInsert(rows, info) == Append(rows, NewRow(info))

\* INSERT INTO public.metadata ... ON CONFLICT (schema_name) DO UPDATE SET ...
\* (PostgreSQL accepts the statement only with a unique index on schema_name,
\* so a conflict is a row with the same schema_name)
InsertOnConflictUpdate(rows, info) ==
    IF \E i \in 1..Len(rows) : rows[i].schema_name = info.schema_name
    THEN [i \in 1..Len(rows) |->
            IF rows[i].schema_name = info.schema_name
            THEN [rows[i] EXCEPT
                     !.data_date = info.data_date,
                     !.data_source = info.data_source,
                     !.license = info.license,
                     !.description = info.description,
                     !.contact = info.contact,
                     !.temporal_start = info.temporal_start,
                     !.temporal_end = info.temporal_end]
            ELSE rows[i]]
    ELSE Append(rows, NewRow(info))

\* the UPDATE without its WHERE clause: every row gets the caller's stats
UpdateStats_EveryRow(rows, schema_name, ntables) ==
    [i \in 1..Len(rows) |->
        [rows[i] EXCEPT
            !.tables = IF ntables = 0 THEN "0" ELSE "1",
            !.size = IF ntables = 0 THEN "None" ELSE "8192",
            !.crawl_date = "now"]]

\* UPDATE public.metadata SET tables = COUNT(*), size = SUM(...), crawl_date =
\* NOW() WHERE schema_name = :schema_name; SUM over no table is NULL
UpdateStats(rows, schema_name, ntables) ==
    [i \in 1..Len(rows) |->
        IF rows[i].schema_name = schema_name
        THEN [rows[i] EXCEPT
                 !.tables = IF ntables = 0 THEN "0" ELSE "1",
                 !.size = IF ntables = 0 THEN "None" ELSE "8192",
                 !.crawl_date = "now"]
        ELSE rows[i]]

\* set_metadata_only: the three statements inside one "with
\* self.engine.begin() as conn" block, in the order upsert, stats, NOTIFY.
\* NOTIFY changes no row; when it raises, the block rolls the transaction
\* back and the exception leaves the method: [rows, raised]
set_metadata_only(rows, metadata_info, ntables, notify_ok) ==
    LET info == WithDefaults(metadata_info)
        upserted == InsertOnConflictUpdate(rows, info)
        updated == UpdateStats(upserted, info.schema_name, ntables)
    IN  IF notify_ok THEN [rows |-> updated, raised |-> FALSE]
        ELSE [rows |-> rows, raised |-> TRUE]

InitMeta ==
    /\ retry = RetryRest
    /\ jao = JaoRest
    /\ eview = EViewRest
    /\ entsog = EntsogRest
    /\ start = StartRest
    /\ regel = RegelRest
    /\ conc = ConcurrentRest
    /\ SyncRest /\ chunk = ChunkRest /\ daily = DailyRest /\ once = OnceRest
    /\ cli = CliRest /\ hyper = HyperRest
    /\ drift = DriftRest /\ ctor = ConstructRest
    /\ meta = [rows |-> <<>>, last |-> [s \in Schemas |-> <<>>],
               overwrote |-> FALSE, calls |-> 0,
               call |-> <<>>, raised |-> FALSE]

\* one call of set_metadata_only; last[s] is the latest call for s that
\* committed, call the arguments of the latest call when it raised
SetMetadata ==
    /\ meta.calls < MaxUpserts
    /\ \E info \in MetadataInfos, ntables \in 0..1, notify_ok \in BOOLEAN :
         LET r == set_metadata_only(meta.rows, info, ntables, notify_ok)
         IN  meta' = [rows |-> r.rows,
                      last |-> IF r.raised THEN meta.last
                               ELSE [meta.last EXCEPT ![info.schema_name] = <<info>>],
                      overwrote |-> \/ meta.overwrote
                                    \/ /\ ~r.raised
                                       /\ \E i \in 1..Len(meta.rows) :
                                            /\ meta.rows[i].schema_name = info.schema_name
                                            /\ meta.rows[i].description # info.description,
                      calls |-> meta.calls + 1,
                      call |-> IF r.raised
                               THEN <<[info |-> info, ntables |-> ntables]>>
                               ELSE <<>>,
                      raised |-> r.raised]
    /\ UNCHANGED notMeta

NextMeta == SetMetadata

SpecMeta == InitMeta /\ [][NextMeta]_vars

\* the value a column holds for a value the caller passed or left out
Passed(v) == IF v = "absent" THEN "None" ELSE v

\* C9: after any sequence of set_metadata_only calls public.metadata holds
\* exactly one row per upserted schema_name, and its data_source, license,
\* description, contact, temporal_start and temporal_end are those of the
\* most recent upsert for that schema_name.
C9_OneRowPerSchemaWithLatestValues ==
    \A s \in Schemas :
        LET idx == {i \in 1..Len(meta.rows) : meta.rows[i].schema_name = s}
        IN  IF meta.last[s] = <<>> THEN idx = {}
            ELSE /\ Cardinality(idx) = 1
                 /\ \A i \in idx :
                      LET up == meta.last[s][1]
                          row == meta.rows[i]
                      IN  /\ row.data_source = up.data_source
                          /\ row.license = up.license
                          /\ row.description = up.description
                          /\ row.contact = Passed(up.contact)
                          /\ row.temporal_start = Passed(up.temporal_start)
                          /\ row.temporal_end = Passed(up.temporal_end)

\* a schema was upserted a second time with another description, next to the
\* row of another schema
C9_Witness ==
    /\ meta.overwrote
    /\ Len(meta.rows) = 2
    /\ \E i \in 1..2 : meta.rows[i].contact = "None"

\* C16: when the NOTIFY statement of a set_metadata_only call fails, the row
\* the call upserted is stored with the values passed and with the stats the
\* call recomputed.
C16_NotifyFailureKeepsUpsert ==
    meta.raised =>
        LET info == meta.call[1].info
            ntables == meta.call[1].ntables
        IN  \E i \in 1..Len(meta.rows) :
                /\ meta.rows[i].schema_name = info.schema_name
                /\ meta.rows[i].description = info.description
                /\ meta.rows[i].data_source = info.data_source
                /\ meta.rows[i].crawl_date = "now"
                /\ meta.rows[i].tables = IF ntables = 0 THEN "0" ELSE "1"

(***************************************************************************)
(* SpecCli: the loop of cli over the selected crawlers.  A URI is a        *)
(* sequence of pieces; the piece "{DBNAME}" is the placeholder.            *)
(***************************************************************************)
\* names given with --crawler-list
MaxSelected == 3

\* the keys of the registry "crawlers" that the model runs
Registry == {"e2watch", "gie", "opsd"}
CrawlerNames == Registry \cup {"unknown"}

UriTemplates ==
    { <<"postgresql://host/opendata?options=--search_path=", "{DBNAME}">>,
      <<"postgresql://host/", "{DBNAME}", "?sslmode=require">> }

\* str.format(DBNAME=schema_name): every placeholder becomes the schema name
format(uri, schema_name) ==
    [i \in 1..Len(uri) |-> IF uri[i] = "{DBNAME}" THEN schema_name ELSE uri[i]]

\* BaseCrawler.__init__: self.config is the mapping it was given;
\* config["db_uri"] is overwritten with the formatted URI, and the engine is
\* created from it; [config, uri]
BaseCrawlerInit(config, schema_name) ==
    LET uri == format(config.db_uri, schema_name)
    IN  [config |-> [config EXCEPT !.db_uri = uri], uri |-> uri]

\* isinstance(crawler, DownloadOnceCrawler) / isinstance(crawler, ContinuousCrawler)
IsDownloadOnce(name) == name \in {"e2watch", "opsd"}
IsContinuous(name) == name \in {"e2watch", "gie"}

\* the two isinstance tests in the other order
start_crawler_TemporalFirst(name) ==
    (IF IsContinuous(name) THEN <<"crawl_temporal">> ELSE <<>>)
    \o (IF IsDownloadOnce(name) THEN <<"crawl_structural">> ELSE <<>>)

\* start_crawler: the methods it calls on the crawler, in order
start_crawler(name) ==
    (IF IsDownloadOnce(name) THEN <<"crawl_structural">> ELSE <<>>)
    \o (IF IsContinuous(name) THEN <<"crawl_temporal">> ELSE <<>>)

\* cli up to the loop: the selection and the config; --config names a file
\* with a db_uri, or --db gives one
InitCli ==
    /\ retry = RetryRest
    /\ jao = JaoRest
    /\ eview = EViewRest
    /\ entsog = EntsogRest
    /\ start = StartRest
    /\ regel = RegelRest
    /\ conc = ConcurrentRest
    /\ SyncRest /\ chunk = ChunkRest /\ daily = DailyRest /\ once = OnceRest
    /\ meta = MetaRest /\ hyper = HyperRest
    /\ drift = DriftRest /\ ctor = ConstructRest
    /\ \E n \in 1..MaxSelected, sel \in [1..MaxSelected -> CrawlerNames],
          tpl \in UriTemplates :
         cli = [config |-> [db_uri |-> tpl],
                selected |-> [i \in 1..n |-> sel[i]],
                i |-> 1, attempts |-> <<>>, engines |-> <<>>, started |-> <<>>,
                upserts |-> <<>>, status |-> "running", error |-> "none"]

\* one iteration of "for crawler_name in selected_crawlers" with a known
\* name: construct the crawler, start it.  The constructor or a crawl method
\* may raise; nothing in cli catches it.
CliRunCrawler ==
    /\ cli.status = "running" /\ cli.i <= Len(cli.selected)
    /\ cli.selected[cli.i] \in Registry
    /\ \E outcome \in {"ok", "constructor raises", "run raises"} :
         LET name == cli.selected[cli.i]
             c == BaseCrawlerInit(cli.config, name)
             built == [cli EXCEPT !.config = c.config,
                                  !.attempts = Append(@, name)]
             run_ == [built EXCEPT
                         !.engines = Append(@, [schema_name |-> name, uri |-> c.uri]),
                         !.started = Append(@, [schema_name |-> name,
                                                calls |-> start_crawler(name),
                                                ok |-> outcome = "ok"])]
         IN  cli' = IF outcome = "constructor raises"
                    THEN [built EXCEPT !.status = "raised", !.error = "Exception"]
                    ELSE IF outcome = "run raises"
                    THEN [run_ EXCEPT !.status = "raised", !.error = "Exception"]
                    ELSE [run_ EXCEPT !.i = @ + 1]
    /\ UNCHANGED notCli

\* the lookup logging the unknown name and going on with the next one
CliUnknownCrawler_Skips ==
    /\ cli.status = "running" /\ cli.i <= Len(cli.selected)
    /\ cli.selected[cli.i] \notin Registry
    /\ cli' = [cli EXCEPT !.i = @ + 1]
    /\ UNCHANGED notCli

\* an iteration with a name that is no key of the registry:
\* crawlers[crawler_name] raises, "raise ValueError(...does not exist)"
CliUnknownCrawler ==
    /\ cli.status = "running" /\ cli.i <= Len(cli.selected)
    /\ cli.selected[cli.i] \notin Registry
    /\ cli' = [cli EXCEPT !.status = "raised", !.error = "ValueError"]
    /\ UNCHANGED notCli

\* the loop is over, cli returns
CliReturn ==
    /\ cli.status = "running" /\ cli.i > Len(cli.selected)
    /\ cli' = [cli EXCEPT !.status = "returned"]
    /\ UNCHANGED notCli

NextCli == CliRunCrawler \/ CliUnknownCrawler \/ CliReturn

SpecCli == InitCli /\ [][NextCli]_vars

\* C10: the engine of every crawler the loop instantiates is bound to the
\* schema whose name was passed to its constructor: the URI of the n-th
\* crawler contains the n-th schema name.
C10_EngineBoundToOwnSchema ==
    \A n \in 1..Len(cli.engines) :
        \E k \in 1..Len(cli.engines[n].uri) :
            cli.engines[n].uri[k] = cli.engines[n].schema_name

\* C11: every run that start_crawler completed without raising is followed,
\* before cli goes on to the next crawler, by an upsert of the crawler's row
\* in public.metadata.
C11_SuccessfulRunUpsertsMetadata ==
    \A n \in 1..Len(cli.started) :
        cli.started[n].ok =>
            \E u \in 1..Len(cli.upserts) : cli.upserts[u] = cli.started[n].schema_name

\* positions of the selection holding a name that is no key of the registry
UnknownAt == {k \in 1..Len(cli.selected) : cli.selected[k] \notin Registry}

\* C19: with an unknown name in the selection, cli raises ValueError when the
\* loop reaches the first such name and never returns; no crawler is
\* constructed or started for that name or for a name after it.
C19_UnknownNameAborts ==
    \A k \in UnknownAt :
        /\ cli.i <= k
        /\ cli.status # "returned"
        /\ Len(cli.attempts) < k /\ Len(cli.engines) < k /\ Len(cli.started) < k
        /\ \A n \in 1..Len(cli.attempts) : cli.attempts[n] = cli.selected[n]
        /\ (cli.i = k /\ cli.status = "raised") => cli.error = "ValueError"

\* cli raised ValueError on an unknown name after it ran a crawler, with a
\* registry key still to come in the selection
C19_Witness ==
    /\ cli.status = "raised" /\ cli.error = "ValueError"
    /\ cli.i \in UnknownAt
    /\ cli.i > 1 /\ Len(cli.started) = cli.i - 1
    /\ cli.i < Len(cli.selected) /\ cli.selected[cli.i + 1] \in Registry

\* C20: when every selected name is a registry key, cli stops only after it
\* has constructed and started every selected crawler once, in selection
\* order, whatever a constructor or a run raised.
C20_AllSelectedAttempted ==
    (UnknownAt = {} /\ cli.status \in {"raised", "returned"}) =>
        cli.attempts = cli.selected

(***************************************************************************)
(* SpecHyper: the methods one call of crawl_temporal calls, in order, for  *)
(* the base implementation and the two overrides                           *)
(***************************************************************************)
\* the call that raises is one of the first MaxRaiseAt (0: none raises)
MaxRaiseAt == 3

\* ContinuousCrawler.crawl_temporal and EViewCrawler.crawl_temporal: the
\* backfill when begin < first, the forward fill when latest < end - offset,
\* then create_hypertable_if_not_exists
BaseCalls(backfill, forward) ==
    (IF backfill THEN <<"crawl_from_to">> ELSE <<>>)
    \o (IF forward THEN <<"crawl_from_to">> ELSE <<>>)
    \o <<"create_hypertable_if_not_exists">>

\* NetztransparenzCrawler.crawl_temporal: the two forecasts when their table
\* is missing, then the nine downloads; nothing else
NetztransparenzCalls(solar_exists, wind_exists) ==
    (IF ~solar_exists THEN <<"forecast_solar">> ELSE <<>>)
    \o (IF ~wind_exists THEN <<"forecast_wind">> ELSE <<>>)
    \o <<"extrapolation_solar", "extrapolation_wind",
         "utilization_balancing_energy", "redispatch", "gcc_balance",
         "lfc_area_balance", "activated_automatic_balancing_capacity",
         "activated_manual_balancing_capacity", "value_of_avoided_activation">>

\* the calls made when the raise_at-th call raises: the calls up to it
CallsUntilRaise(calls, raise_at) ==
    IF raise_at = 0 \/ raise_at > Len(calls) THEN calls
    ELSE SubSeq(calls, 1, raise_at)

InitHyper ==
    /\ retry = RetryRest
    /\ jao = JaoRest
    /\ eview = EViewRest
    /\ entsog = EntsogRest
    /\ start = StartRest
    /\ regel = RegelRest
    /\ conc = ConcurrentRest
    /\ SyncRest /\ chunk = ChunkRest /\ daily = DailyRest /\ once = OnceRest
    /\ meta = MetaRest /\ cli = CliRest /\ drift = DriftRest /\ ctor = ConstructRest
    /\ \E impl \in {"base", "eview", "netztransparenz"}, backfill \in BOOLEAN,
          forward \in BOOLEAN, solar_exists \in BOOLEAN, wind_exists \in BOOLEAN,
          raise_at \in 0..MaxRaiseAt :
         hyper = [done |-> FALSE, impl |-> impl, backfill |-> backfill,
                  forward |-> forward, solar_exists |-> solar_exists,
                  wind_exists |-> wind_exists, raise_at |-> raise_at,
                  events |-> <<>>, raised |-> FALSE]

\* one call crawl_temporal(begin, end)
HyperCrawlTemporal ==
    /\ ~hyper.done
    /\ LET calls == IF hyper.impl = "netztransparenz"
                    THEN NetztransparenzCalls(hyper.solar_exists, hyper.wind_exists)
                    ELSE BaseCalls(hyper.backfill, hyper.forward)
       IN  hyper' = [hyper EXCEPT
                        !.done = TRUE,
                        !.events = CallsUntilRaise(calls, hyper.raise_at),
                        !.raised = hyper.raise_at \in 1..Len(calls)]
    /\ UNCHANGED notHyper

NextHyper == HyperCrawlTemporal

SpecHyper == InitHyper /\ [][NextHyper]_vars

\* C14: a crawl_temporal call that returns without raising has called
\* create_hypertable_if_not_exists exactly once, as its last call, whether or
\* not a window was fetched, in the base implementation and in the overrides.
C14_HypertableOnceAfterFetches ==
    (hyper.done /\ ~hyper.raised) =>
        /\ Cardinality({i \in 1..Len(hyper.events) :
                           hyper.events[i] = "create_hypertable_if_not_exists"}) = 1
        /\ hyper.events[Len(hyper.events)] = "create_hypertable_if_not_exists"

(***************************************************************************)
(* SpecDrift: the day-by-day append loops of RegelleistungCrawler and      *)
(* EntsogCrawler when the upstream batches gain a column.  A table is its  *)
(* rows, each the number of the day whose batch it came with (rows stored  *)
(* before the call have numbers <= 0), and whether it has the new column.  *)
(***************************************************************************)
\* days fetched by one call, and rows stored before it
MaxDays == 3
MaxPrev == 2

\* df.to_sql(if_exists="append") of the batch of day d; the batches from
\* drift_day on have a column the table lacks until it is replaced:
\* [ok, tbl]
AppendBatch(tbl, d, drift_day) ==
    IF drift_day # 0 /\ d >= drift_day /\ ~tbl.drifted
    THEN [ok |-> FALSE, tbl |-> tbl]
    ELSE [ok |-> TRUE, tbl |-> [tbl EXCEPT !.rows = Append(@, d)]]

\* write_concat_table / the except branch of pullOperationalData:
\* read the table, pd.concat([prev, new_data]), to_sql(if_exists="replace")
write_concat_table(tbl, d) ==
    [rows |-> Append(tbl.rows, d), drifted |-> TRUE]

RECURSIVE RegelleistungLoop(_, _, _, _)
\* write_new_data_from_latest_date_to_today: "while latest_data_date <
\* today_date"; the date advances only at the end of the try block
RegelleistungLoop(tbl, d, today, drift_day) ==
    IF ~(d < today) THEN tbl
    ELSE LET a == AppendBatch(tbl, d, drift_day)
         IN  IF a.ok THEN RegelleistungLoop(a.tbl, d + 1, today, drift_day)
             ELSE RegelleistungLoop(write_concat_table(tbl, d), d, today, drift_day)

RECURSIVE EntsogLoop(_, _, _, _)
\* pullOperationalData: "for i in pbar" over the days of one indicator
EntsogLoop(tbl, d, today, drift_day) ==
    IF ~(d < today) THEN tbl
    ELSE LET a == AppendBatch(tbl, d, drift_day)
         IN  IF a.ok THEN EntsogLoop(a.tbl, d + 1, today, drift_day)
             ELSE EntsogLoop(write_concat_table(tbl, d), d + 1, today, drift_day)

InitDrift ==
    /\ retry = RetryRest
    /\ jao = JaoRest
    /\ eview = EViewRest
    /\ entsog = EntsogRest
    /\ start = StartRest
    /\ regel = RegelRest
    /\ conc = ConcurrentRest
    /\ SyncRest /\ chunk = ChunkRest /\ daily = DailyRest /\ once = OnceRest
    /\ meta = MetaRest /\ cli = CliRest /\ hyper = HyperRest
    /\ ctor = ConstructRest
    /\ \E crawler \in {"regelleistung", "entsog"}, days \in 1..MaxDays,
          drift_day \in 0..MaxDays, prev \in 0..MaxPrev :
         drift = [done |-> FALSE, crawler |-> crawler, days |-> days,
                  drift_day |-> drift_day,
                  prev |-> [i \in 1..prev |-> 1 - i],
                  rows |-> [i \in 1..prev |-> 1 - i], drifted |-> FALSE]

\* one call of the loop for the days 1..days
DriftCrawl ==
    /\ ~drift.done
    /\ LET tbl == [rows |-> drift.rows, drifted |-> drift.drifted]
           r == IF drift.crawler = "regelleistung"
                THEN RegelleistungLoop(tbl, 1, drift.days + 1, drift.drift_day)
                ELSE EntsogLoop(tbl, 1, drift.days + 1, drift.drift_day)
       IN  drift' = [drift EXCEPT !.done = TRUE, !.rows = r.rows,
                                  !.drifted = r.drifted]
    /\ UNCHANGED notDrift

NextDrift == DriftCrawl

SpecDrift == InitDrift /\ [][NextDrift]_vars

\* how often a row is stored
Copies(rows, x) == Cardinality({i \in 1..Len(rows) : rows[i] = x})

\* C15: after a call in which an append failed on the drifted schema, the
\* table holds every row stored before and the batch of every day exactly
\* once: the fallback loses nothing and writes nothing twice, and the days
\* after it are crawled.
C15_FallbackKeepsEveryRowOnce ==
    (drift.done /\ drift.drift_day \in 1..drift.days) =>
        /\ \A i \in 1..Len(drift.prev) : Copies(drift.rows, drift.prev[i]) = 1
        /\ \A d \in 1..drift.days : Copies(drift.rows, d) = 1

(***************************************************************************)
(* SpecConstruct: one constructor call crawler_class(schema_name, config). *)
(* A config is a record whose fields hold "absent" for a key the mapping   *)
(* lacks.                                                                  *)
(***************************************************************************)
\* the classes: GieCrawler and E2WatchCrawler define __init__ and pass the
\* config on, OpsdCrawler inherits BaseCrawler.__init__, EEXCrawler defines
\* __init__(self, schema_name)
CrawlerClasses == {"GieCrawler", "E2WatchCrawler", "OpsdCrawler", "EEXCrawler"}

\* the value of the field db_uri of a config without the key (a URI of the
\* model has at least one piece)
NoDbUri == <<>>

Configs ==
    [db_uri : {NoDbUri} \cup UriTemplates,
     gie_api_key : {"absent", "YOUR_GIE_API_KEY", "key"}]

\* nothing done yet by a constructor given config
Unbuilt(config) ==
    [config |-> config, engine |-> <<>>, schema_created |-> FALSE,
     table_created |-> FALSE, raised |-> "none"]

\* BaseCrawler.__init__(schema_name, config): ValueError before anything else
\* when the key is missing; else format, create_engine, create_schema
BaseCrawler__init__(schema_name, config) ==
    IF config.db_uri = NoDbUri
    THEN [Unbuilt(config) EXCEPT !.raised = "ValueError"]
    ELSE LET c == BaseCrawlerInit(config, schema_name)
         IN  [Unbuilt(c.config) EXCEPT !.engine = <<c.uri>>, !.schema_created = TRUE]

\* crawler_class(schema_name, config)
Construct(class, schema_name, config) ==
    LET base == BaseCrawler__init__(schema_name, config)
    IN  CASE class = "EEXCrawler" ->
               \* two arguments given to __init__(self, schema_name)
               [Unbuilt(config) EXCEPT !.raised = "TypeError"]
          [] class = "GieCrawler" ->
               IF base.raised # "none" THEN base
               ELSE IF config.gie_api_key = "absent"
                    THEN [base EXCEPT !.raised = "KeyError"]
               ELSE IF config.gie_api_key = "YOUR_GIE_API_KEY"
                    THEN [base EXCEPT !.raised = "Exception"]
               ELSE base
          [] class = "E2WatchCrawler" ->
               IF base.raised # "none" THEN base
               ELSE [base EXCEPT !.table_created = TRUE]
          [] OTHER -> base

InitConstruct ==
    /\ retry = RetryRest
    /\ jao = JaoRest
    /\ eview = EViewRest
    /\ entsog = EntsogRest
    /\ start = StartRest
    /\ regel = RegelRest
    /\ conc = ConcurrentRest
    /\ SyncRest /\ chunk = ChunkRest /\ daily = DailyRest /\ once = OnceRest
    /\ meta = MetaRest /\ cli = CliRest /\ hyper = HyperRest
    /\ drift = DriftRest
    /\ \E class \in CrawlerClasses, schema_name \in Schemas, config \in Configs :
         ctor = [done |-> FALSE, class |-> class, schema_name |-> schema_name,
                 given |-> config] @@ Unbuilt(config)

ConstructCrawler ==
    /\ ~ctor.done
    /\ LET r == Construct(ctor.class, ctor.schema_name, ctor.given)
       IN  ctor' = [done |-> TRUE, class |-> ctor.class,
                    schema_name |-> ctor.schema_name, given |-> ctor.given] @@ r
    /\ UNCHANGED notConstruct

NextConstruct == ConstructCrawler

SpecConstruct == InitConstruct /\ [][NextConstruct]_vars

\* C18: a constructor given a config without the key 'db_uri' raises
\* ValueError and leaves no engine, no schema and no config['db_uri'].
C18_MissingDbUriRaisesValueError ==
    (ctor.done /\ ctor.given.db_uri = NoDbUri) =>
        /\ ctor.raised = "ValueError"
        /\ ctor.engine = <<>>
        /\ ~ctor.schema_created
        /\ ctor.config.db_uri = NoDbUri


(***************************************************************************)
(* SpecConcurrent: one set_metadata_only call by each of two crawlers with *)
(* different schema names, the statements of the calls interleaved.  Each  *)
(* call is a transaction (engine.begin()) under READ COMMITTED: a          *)
(* statement sees the committed rows and the rows its own transaction      *)
(* wrote; the commit at the end of the with block makes its rows visible.  *)
(***************************************************************************)
\* the row a schema has from an earlier run
PriorRow(s) ==
    [NewRow([schema_name |-> s, data_date |-> "2024-06-12",
             data_source |-> "https://old", license |-> "CC-BY-4.0",
             description |-> "d0", contact |-> "None",
             temporal_start |-> "None", temporal_end |-> "None"])
        EXCEPT !.tables = "1", !.size = "8192", !.crawl_date = "earlier"]

\* the metadata_info mappings of the concurrent callers
ConcurrentInfos(s) ==
    {info \in MetadataInfos : /\ info.schema_name = s
                              /\ info.contact = "absent"
                              /\ info.temporal_start = "absent"}

\* rows with the row versions of writes in place of those with the same key,
\* and the new ones added
Overlay(rows, writes) ==
    [i \in 1..Len(rows) |->
        IF \E j \in 1..Len(writes) : writes[j].schema_name = rows[i].schema_name
        THEN writes[CHOOSE j \in 1..Len(writes) :
                        writes[j].schema_name = rows[i].schema_name]
        ELSE rows[i]]
    \o SelectSeq(writes, LAMBDA w :
                    \A i \in 1..Len(rows) : rows[i].schema_name # w.schema_name)

\* the row versions a statement wrote: the rows of its result that the
\* committed table does not hold
WrittenBy(result, rows) ==
    SelectSeq(result, LAMBDA w : \A i \in 1..Len(rows) : rows[i] # w)

InitConcurrent ==
    /\ retry = RetryRest
    /\ jao = JaoRest
    /\ eview = EViewRest
    /\ entsog = EntsogRest
    /\ start = StartRest
    /\ regel = RegelRest
    /\ SyncRest /\ chunk = ChunkRest /\ daily = DailyRest /\ once = OnceRest
    /\ meta = MetaRest /\ cli = CliRest /\ hyper = HyperRest
    /\ drift = DriftRest /\ ctor = ConstructRest
    /\ \E gie_prior \in BOOLEAN, opsd_prior \in BOOLEAN,
          info \in [Schemas -> MetadataInfos], ntables \in [Schemas -> 0..1] :
         /\ \A s \in Schemas : info[s] \in ConcurrentInfos(s)
         /\ conc = [rows |-> (IF gie_prior THEN <<PriorRow("gie")>> ELSE <<>>)
                             \o (IF opsd_prior THEN <<PriorRow("opsd")>> ELSE <<>>),
                    tx |-> [s \in Schemas |->
                              [pc |-> "begin", info |-> info[s],
                               ntables |-> ntables[s], writes |-> <<>>]],
                    overlapped |-> FALSE]

\* the INSERT ... ON CONFLICT statement of the call of crawler s
ConcurrentUpsert(s) ==
    /\ conc.tx[s].pc = "begin"
    /\ LET view == Overlay(conc.rows, conc.tx[s].writes)
           result == InsertOnConflictUpdate(view, WithDefaults(conc.tx[s].info))
       IN  conc' = [conc EXCEPT
                       !.tx[s].pc = "upserted",
                       !.tx[s].writes = WrittenBy(result, conc.rows),
                       !.overlapped = @ \/ \E o \in Schemas \ {s} :
                           conc.tx[o].pc \in {"upserted", "updated", "notified"}]
    /\ UNCHANGED notConcurrent

\* the UPDATE ... WHERE schema_name = :schema_name statement
ConcurrentUpdateStats(s) ==
    /\ conc.tx[s].pc = "upserted"
    /\ LET view == Overlay(conc.rows, conc.tx[s].writes)
           result == UpdateStats(view, conc.tx[s].info.schema_name,
                                 conc.tx[s].ntables)
       IN  conc' = [conc EXCEPT !.tx[s].pc = "updated",
                                !.tx[s].writes = WrittenBy(result, conc.rows)]
    /\ UNCHANGED notConcurrent

\* NOTIFY: it writes no row; when it raises the with block rolls back
ConcurrentNotify(s) ==
    /\ conc.tx[s].pc = "updated"
    /\ \/ conc' = [conc EXCEPT !.tx[s].pc = "notified"]
       \/ conc' = [conc EXCEPT !.tx[s].pc = "rolled back", !.tx[s].writes = <<>>]
    /\ UNCHANGED notConcurrent

\* the end of "with engine.begin() as conn": commit
ConcurrentCommit(s) ==
    /\ conc.tx[s].pc = "notified"
    /\ conc' = [conc EXCEPT !.rows = Overlay(conc.rows, conc.tx[s].writes),
                            !.tx[s].pc = "committed", !.tx[s].writes = <<>>]
    /\ UNCHANGED notConcurrent

NextConcurrent ==
    \E s \in Schemas :
        \/ ConcurrentUpsert(s)
        \/ ConcurrentUpdateStats(s)
        \/ ConcurrentNotify(s)
        \/ ConcurrentCommit(s)

SpecConcurrent == InitConcurrent /\ [][NextConcurrent]_vars

\* the rows public.metadata holds for schema s
RowsOf(s) == {i \in 1..Len(conc.rows) : conc.rows[i].schema_name = s}

\* C21: whatever the interleaving, once the crawlers' calls have committed
\* public.metadata holds exactly one row per schema name, and the row of
\* each crawler carries the values and the stats of that crawler's own call.
C21_ConcurrentUpsertsDoNotConflict ==
    \A s \in Schemas :
        /\ Cardinality(RowsOf(s)) <= 1
        /\ conc.tx[s].pc = "committed" =>
             /\ Cardinality(RowsOf(s)) = 1
             /\ \A i \in RowsOf(s) :
                  /\ conc.rows[i].description = conc.tx[s].info.description
                  /\ conc.rows[i].data_source = conc.tx[s].info.data_source
                  /\ conc.rows[i].tables = (IF conc.tx[s].ntables = 0 THEN "0" ELSE "1")
                  /\ conc.rows[i].crawl_date = "now"

\* both calls committed, their statements interleaved (one crawler
\* upserted while the transaction of the other was open), with different stats
C21_Witness ==
    /\ \A s \in Schemas : conc.tx[s].pc = "committed"
    /\ conc.overlapped
    /\ conc.tx["gie"].ntables # conc.tx["opsd"].ntables
    /\ conc.tx["gie"].info.description # conc.tx["opsd"].info.description
    /\ Len(conc.rows) = 2


(***************************************************************************)
(* SpecRegel: RegelleistungCrawler.write_new_data_from_latest_date_to_today*)
(* one loop iteration per step.  Days are numbered from the latest stored  *)
(* day 0.  The batch of fetch_day cannot be read (get_df_for_date raises   *)
(* Exception), the batch of bad_day cannot be appended for another reason  *)
(* than a missing column (a ProgrammingError such as DatatypeMismatch),    *)
(* the batches from drift_day on have a new column; 0 is no such day.      *)
(***************************************************************************)
InitRegel ==
    /\ retry = RetryRest
    /\ jao = JaoRest
    /\ eview = EViewRest
    /\ entsog = EntsogRest
    /\ start = StartRest
    /\ SyncRest /\ chunk = ChunkRest /\ daily = DailyRest /\ once = OnceRest
    /\ meta = MetaRest /\ cli = CliRest /\ hyper = HyperRest
    /\ drift = DriftRest /\ ctor = ConstructRest /\ conc = ConcurrentRest
    /\ \E today \in 1..(MaxDays + 1), drift_day \in 0..MaxDays,
          bad_day \in 0..MaxDays, fetch_day \in 0..MaxDays :
         regel = [pc |-> "called", latest_data_date |-> 0, today_date |-> today,
                  drift_day |-> drift_day, bad_day |-> bad_day,
                  fetch_day |-> fetch_day,
                  rows |-> <<0>>, drifted |-> FALSE, logged |-> FALSE]

\* "if latest_data_date == today - 1: already the newest data, else
\* latest_data_date = latest_data_date + 1" and on to the loop
RegelEnter ==
    /\ regel.pc = "called"
    /\ regel' = IF regel.latest_data_date = regel.today_date - 1
                THEN [regel EXCEPT !.pc = "returned"]
                ELSE [regel EXCEPT !.pc = "loop", !.latest_data_date = @ + 1]
    /\ UNCHANGED notRegel

\* the test "while latest_data_date < today_date" failing: the loop is over
RegelLeave ==
    /\ regel.pc = "loop"
    /\ ~(regel.latest_data_date < regel.today_date)
    /\ regel' = [regel EXCEPT !.pc = "returned"]
    /\ UNCHANGED notRegel

\* one iteration of the loop body
RegelIteration ==
    /\ regel.pc = "loop"
    /\ regel.latest_data_date < regel.today_date
    /\ LET d == regel.latest_data_date
           tbl == [rows |-> regel.rows, drifted |-> regel.drifted]
           a == AppendBatch(tbl, d, regel.drift_day)
           c == write_concat_table(tbl, d)
       IN  regel' =
             IF d = regel.fetch_day
             THEN \* get_df_for_date raises Exception: not caught here
                  [regel EXCEPT !.pc = "raised"]
             ELSE IF d = regel.bad_day
             THEN \* "else: log.error(...)": the date stays
                  [regel EXCEPT !.logged = TRUE]
             ELSE IF a.ok
             THEN [regel EXCEPT !.rows = a.tbl.rows, !.latest_data_date = @ + 1]
             ELSE \* UndefinedColumn: write_concat_table, the date stays
                  [regel EXCEPT !.rows = c.rows, !.drifted = c.drifted]
    /\ UNCHANGED notRegel

NextRegel == RegelEnter \/ RegelLeave \/ RegelIteration

SpecRegel == InitRegel /\ [][NextRegel]_vars

\* C22: the loop terminates: every iteration advances the cursor date or
\* raises, or it is the one schema-drift fallback after which the appends
\* succeed; so no iteration leaves the loop where it was, also not the one
\* that logs another ProgrammingError.
C22_IterationMakesProgress ==
    [][RegelIteration =>
         \/ regel'.latest_data_date > regel.latest_data_date
         \/ regel'.pc = "raised"
         \/ ~regel.drifted /\ regel'.drifted]_vars


(***************************************************************************)
(* SpecStart: one call start_crawler(crawler), a step per crawl method it  *)
(* calls.  ex and rows are the structural table (buildings for e2watch),   *)
(* events the calls made in order, seen the rows of the buildings table    *)
(* that each crawl_from_to of E2WatchCrawler read.                         *)
(***************************************************************************)
InitStart ==
    /\ retry = RetryRest
    /\ jao = JaoRest
    /\ eview = EViewRest
    /\ entsog = EntsogRest
    /\ SyncRest /\ chunk = ChunkRest /\ daily = DailyRest /\ once = OnceRest
    /\ meta = MetaRest /\ cli = CliRest /\ hyper = HyperRest
    /\ drift = DriftRest /\ ctor = ConstructRest /\ conc = ConcurrentRest
    /\ regel = RegelRest
    /\ \E name \in Registry, ex \in BOOLEAN, populated \in BOOLEAN,
          backfill \in BOOLEAN, forward \in BOOLEAN :
         /\ populated => ex
         /\ start = [name |-> name, ex |-> ex,
                     rows |-> IF populated THEN <<1>> ELSE <<>>,
                     before |-> IF populated THEN <<1>> ELSE <<>>,
                     backfill |-> backfill, forward |-> forward,
                     i |-> 1, pc |-> "running", events |-> <<>>, seen |-> <<>>]

\* the method start_crawler calls next
StartMethod ==
    IF start.i <= Len(start_crawler(start.name))
    THEN start_crawler(start.name)[start.i] ELSE "none"

\* "crawler.crawl_structural()": it returns, or raises before or after its
\* to_sql (in get_all_buildings / the download, or in
\* create_hypertable_if_not_exists); the exception leaves start_crawler
StartCrawlStructural ==
    /\ start.pc = "running" /\ StartMethod = "crawl_structural"
    /\ \E outcome \in {"returns", "raises before write", "raises after write"} :
         LET c == crawl_structural(start.name, start.ex, start.rows, 1, FALSE)
             called == [start EXCEPT !.events = Append(@, "crawl_structural")]
             written == [called EXCEPT !.ex = c.ex, !.rows = c.rows]
         IN  start' =
               IF outcome = "raises before write"
               THEN [called EXCEPT !.pc = "raised"]
               ELSE IF outcome = "raises after write"
               THEN [written EXCEPT !.pc = "raised"]
               ELSE [written EXCEPT
                        !.events = Append(@, "crawl_structural returned"),
                        !.i = @ + 1]
    /\ UNCHANGED notStart

\* "crawler.crawl_temporal(begin, end)": its crawl_from_to calls, each of
\* which reads the buildings table first (E2WatchCrawler), and whether one
\* of them raised
StartCrawlTemporal ==
    /\ start.pc = "running" /\ StartMethod = "crawl_temporal"
    /\ \E raises \in BOOLEAN :
         LET calls == BaseCalls(start.backfill, start.forward)
             made == IF raises THEN CallsUntilRaise(calls, 1) ELSE calls
             reads == SelectSeq(made, LAMBDA m : m = "crawl_from_to")
         IN  start' = [start EXCEPT
                          !.events = @ \o <<"crawl_temporal">> \o made,
                          !.seen = @ \o [k \in 1..Len(reads) |->
                                           IF start.ex THEN start.rows ELSE <<>>],
                          !.pc = IF raises THEN "raised" ELSE @,
                          !.i = IF raises THEN @ ELSE @ + 1]
    /\ UNCHANGED notStart

\* start_crawler returns
StartReturn ==
    /\ start.pc = "running" /\ StartMethod = "none"
    /\ start' = [start EXCEPT !.pc = "returned"]
    /\ UNCHANGED notStart

NextStart == StartCrawlStructural \/ StartCrawlTemporal \/ StartReturn

SpecStart == InitStart /\ [][NextStart]_vars

\* how often start_crawler made a call
CallsOf(m) == Cardinality({k \in 1..Len(start.events) : start.events[k] = m})

\* C26: for E2WatchCrawler start_crawler calls crawl_structural and
\* crawl_temporal once each, crawl_temporal only after crawl_structural has
\* returned, and every crawl_from_to reads a populated buildings table.
C26_StructuralBeforeTemporal ==
    (start.name = "e2watch") =>
        /\ CallsOf("crawl_structural") <= 1 /\ CallsOf("crawl_temporal") <= 1
        /\ start.pc = "returned" =>
             CallsOf("crawl_structural") = 1 /\ CallsOf("crawl_temporal") = 1
        /\ \A k \in 1..Len(start.events) :
             start.events[k] \in {"crawl_temporal", "crawl_from_to"} =>
                \E j \in 1..(k - 1) : start.events[j] = "crawl_structural returned"
        /\ \A k \in 1..Len(start.seen) : start.seen[k] # <<>>

\* start_crawler returned for E2WatchCrawler on a buildings table that held
\* no row, after a backfill and a forward fill
C26_Witness ==
    /\ start.name = "e2watch" /\ start.pc = "returned"
    /\ start.before = <<>>
    /\ Len(start.seen) = 2


(***************************************************************************)
(* SpecEntsog: one call of EntsogCrawler.pullOperationalData over its      *)
(* three indicators.  Days are numbers; end is day MaxLag + 1, and the     *)
(* table of an indicator holds rows up to end - lag.                       *)
(***************************************************************************)
\* the most days an indicator is behind end
MaxLag == 2

Indicators == <<"Physical Flow", "Allocation", "Firm Technical">>

\* the days beg1 of "for i in range(bulks)": begin, begin + 1, ..., end - 1
BulkDays(begin, end) == [i \in 1..(end - begin) |-> begin + i - 1]

RECURSIVE PullIndicators(_, _, _, _)
\* "for indicator in indicators": begin from initial_begin or findNewBegin;
\* "if bulks < 1: return" leaves the method; after the loop the index
\* statements.  r = [fetched, indexes]
PullIndicators(k, begins, end, r) ==
    IF k > Len(Indicators) THEN [r EXCEPT !.indexes = TRUE]
    ELSE LET bulks == end - begins[k]
         IN  IF bulks < 1 THEN r
             ELSE PullIndicators(k + 1, begins, end,
                      [r EXCEPT !.fetched[k] = BulkDays(begins[k], end)])

\* pullOperationalData(indicators, initial_begin, end)
pullOperationalData(latest, initial_begin, end) ==
    LET begins == [k \in 1..Len(Indicators) |->
                      IF initial_begin # None THEN initial_begin ELSE latest[k]]
    IN  PullIndicators(1, begins, end,
                       [fetched |-> [k \in 1..Len(Indicators) |-> <<>>],
                        indexes |-> FALSE])

InitEntsog ==
    /\ retry = RetryRest
    /\ jao = JaoRest
    /\ eview = EViewRest
    /\ SyncRest /\ chunk = ChunkRest /\ daily = DailyRest /\ once = OnceRest
    /\ meta = MetaRest /\ cli = CliRest /\ hyper = HyperRest
    /\ drift = DriftRest /\ ctor = ConstructRest /\ conc = ConcurrentRest
    /\ regel = RegelRest /\ start = StartRest
    /\ \E lag \in [1..Len(Indicators) -> 0..MaxLag],
          initial_begin \in {None} \cup 1..(MaxLag + 1) :
         entsog = [done |-> FALSE, end |-> MaxLag + 1,
                   latest |-> [k \in 1..Len(Indicators) |-> MaxLag + 1 - lag[k]],
                   initial_begin |-> initial_begin,
                   fetched |-> [k \in 1..Len(Indicators) |-> <<>>],
                   indexes |-> FALSE]

PullOperationalData ==
    /\ ~entsog.done
    /\ LET r == pullOperationalData(entsog.latest, entsog.initial_begin, entsog.end)
       IN  entsog' = [entsog EXCEPT !.done = TRUE, !.fetched = r.fetched,
                                    !.indexes = r.indexes]
    /\ UNCHANGED notEntsog

NextEntsog == PullOperationalData

SpecEntsog == InitEntsog /\ [][NextEntsog]_vars

\* C27: a call without initial_begin fetches every indicator from its own
\* latest stored day up to end, whether or not an indicator before it in
\* the list was up to date, and then runs the index statements.
C27_EveryIndicatorSynchronised ==
    (entsog.done /\ entsog.initial_begin = None) =>
        /\ \A k \in 1..Len(Indicators) :
              entsog.fetched[k] = BulkDays(entsog.latest[k], entsog.end)
        /\ entsog.indexes


(***************************************************************************)
(* SpecEView: one call of EViewCrawler.crawl_from_to over the solar plants *)
(* that get_solar_units returns, on the clock of hours of SpecDaily.       *)
(***************************************************************************)
\* the latest stored day of a plant is one of the first MaxLatestDay days
MaxLatestDay == 2

\* the units of get_solar_units, in the order of the page
SolarPlants == <<"aa", "bb", "cc">>

RECURSIVE PlantLoop(_, _, _, _, _, _)
\* "for plant in solar_plants": begin and end are the variables of the
\* method, assigned inside the loop and kept from one plant to the next;
\* started[k] is the begin passed to crawl_unit for plant k
PlantLoop(k, begin, end, latest, today, started) ==
    IF k > Len(SolarPlants) THEN started
    ELSE LET b == IF begin = None THEN latest[k] + DAY ELSE begin
             e == IF end = None \/ end > today - DAY THEN today - DAY ELSE end
         IN  PlantLoop(k + 1, b, e, latest, today,
                       Append(started, [begin |-> b, end |-> e,
                                        days |-> FetchDays(date_range(b, e))]))

InitEView ==
    /\ retry = RetryRest
    /\ jao = JaoRest
    /\ SyncRest /\ chunk = ChunkRest /\ daily = DailyRest /\ once = OnceRest
    /\ meta = MetaRest /\ cli = CliRest /\ hyper = HyperRest
    /\ drift = DriftRest /\ ctor = ConstructRest /\ conc = ConcurrentRest
    /\ regel = RegelRest /\ start = StartRest /\ entsog = EntsogRest
    /\ \E l \in [1..Len(SolarPlants) -> 0..MaxLatestDay],
          begin \in {None, DAY},
          end \in {None} \cup {d * DAY : d \in 1..(MaxLatestDay + 3)} :
         eview = [done |-> FALSE, begin |-> begin, end |-> end,
                  today |-> (MaxLatestDay + 3) * DAY + 6,
                  latest |-> [k \in 1..Len(SolarPlants) |-> l[k] * DAY],
                  started |-> <<>>]

\* one call crawl_from_to(begin, end), no request failing
EViewCrawlFromTo ==
    /\ ~eview.done
    /\ eview' = [eview EXCEPT
                    !.done = TRUE,
                    !.started = PlantLoop(1, eview.begin, eview.end, eview.latest,
                                          eview.today, <<>>)]
    /\ UNCHANGED notEView

NextEView == EViewCrawlFromTo

SpecEView == InitEView /\ [][NextEView]_vars

\* C28: with begin=None the fetch of every plant starts at the day after
\* that plant's own latest stored timestamp.
C28_EveryPlantFromOwnLatest ==
    (eview.done /\ eview.begin = None) =>
        \A k \in 1..Len(SolarPlants) :
            eview.started[k].begin = eview.latest[k] + DAY


(***************************************************************************)
(* SpecJao: one call of JaoCrawler.crawl_from_to.  Instants are days,      *)
(* day 0 being Monday 2024-01-01; every instant of the model lies in that  *)
(* January.                                                                *)
(***************************************************************************)
\* the last day of the clock: end of the calls
MaxJaoDay == 4

\* MIN_WEEKLY_DATE, as a day of the clock
MIN_WEEKLY_DATE == 2

JaoHorizons == {"monthly", "weekly", "daily", "intraday"}
JaoCorridors == <<"AT-CH", "CH-AT">>

\* the orders in which get_horizons may return the horizons
HorizonOrders ==
    {o \in [1..Cardinality(JaoHorizons) -> JaoHorizons] :
        \A a, b \in 1..Cardinality(JaoHorizons) : a # b => o[a] # o[b]}

\* calculate_min_max: what "SELECT MIN(date), MAX(date) ..." followed by
\* .scalar() gives, subscripted with [0] and [1]
\*   "missing": the query raises                       -> None, None
\*   "NULL":    None[0] raises TypeError               -> None, None
\*   "datetime": datetime[0] raises TypeError          -> None, None
\*   "str":     the first two characters of the text, which
\*              string_to_timestamp parses with no format -> None, None
calculate_min_max(scalar) == <<None, None>>

\* end - DELTAS.get(horizon.lower(), timedelta(days=1)) for an end in
\* January: relativedelta(month=1) sets the month to January,
\* relativedelta(weeks=1, weekday=0) goes back a week and on to a Monday
EndMinusDelta(horizon, end) ==
    CASE horizon = "monthly" -> end
      [] horizon = "weekly" ->
           SetMin({m \in (end - 7)..end : m % 7 = 0})
      [] OTHER -> end - 1

RECURSIVE JaoLoop(_, _, _, _, _, _, _)
\* "for horizon in get_horizons(): for corridor in get_corridors()"; begin
\* is the parameter of the method, reassigned for a weekly horizon and kept
\* for the pairs after it.  windows are the calls of crawl_single_horizon
JaoLoop(order, h, c, begin, end, scalar, windows) ==
    IF h > Len(order) THEN windows
    ELSE IF c > Len(JaoCorridors)
    THEN JaoLoop(order, h + 1, 1, begin, end, scalar, windows)
    ELSE IF order[h] = "intraday"
    THEN JaoLoop(order, h, c + 1, begin, end, scalar, windows)
    ELSE LET b == IF order[h] = "weekly" THEN Max2(MIN_WEEKLY_DATE, begin) ELSE begin
             mm == calculate_min_max(scalar)
             first_date == IF mm[1] = None THEN end ELSE mm[1]
             last_date == mm[2]
             w1 == IF b < first_date
                   THEN <<[horizon |-> order[h], corridor |-> JaoCorridors[c],
                           from_date |-> b, to_date |-> first_date]>>
                   ELSE <<>>
             w2 == IF last_date # None /\ EndMinusDelta(order[h], end) > last_date
                   THEN <<[horizon |-> order[h], corridor |-> JaoCorridors[c],
                           from_date |-> last_date, to_date |-> end]>>
                   ELSE <<>>
         IN  JaoLoop(order, h, c + 1, b, end, scalar, windows \o w1 \o w2)

InitJao ==
    /\ retry = RetryRest
    /\ SyncRest /\ chunk = ChunkRest /\ daily = DailyRest /\ once = OnceRest
    /\ meta = MetaRest /\ cli = CliRest /\ hyper = HyperRest
    /\ drift = DriftRest /\ ctor = ConstructRest /\ conc = ConcurrentRest
    /\ regel = RegelRest /\ start = StartRest /\ entsog = EntsogRest
    /\ eview = EViewRest
    /\ \E order \in HorizonOrders, begin \in 0..(MaxJaoDay - 1),
          scalar \in {"missing", "NULL", "datetime", "str"} :
         jao = [done |-> FALSE, order |-> order, begin |-> begin,
                end |-> MaxJaoDay, scalar |-> scalar, windows |-> <<>>]

\* one call crawl_from_to(begin, end)
JaoCrawlFromTo ==
    /\ ~jao.done
    /\ jao' = [jao EXCEPT
                  !.done = TRUE,
                  !.windows = JaoLoop(jao.order, 1, 1, jao.begin, jao.end,
                                      jao.scalar, <<>>)]
    /\ UNCHANGED notJao

NextJao == JaoCrawlFromTo

SpecJao == InitJao /\ [][NextJao]_vars

\* C29: whatever the order of the horizons, the backfill window of every
\* horizon other than weekly starts at the begin the caller passed.
C29_FloorOnlyForWeekly ==
    jao.done =>
        \A n \in 1..Len(jao.windows) :
            jao.windows[n].horizon # "weekly" =>
                jao.windows[n].from_date = jao.begin


(***************************************************************************)
(* SpecRetry: one call of crawl_opec_data or of getDataFrame, a step per   *)
(* iteration of its retry loop.  history holds the outcome of every        *)
(* request made so far.                                                    *)
(***************************************************************************)
\* crawl_opec_data: max_retries = 5
max_retries == 5

\* getDataFrame: "while i < 10 and not success"
MAX_ATTEMPTS == 10

\* "while retries < max_retries"
OpecContinues_Always(retries) == TRUE

OpecContinues(retries) == retries < max_retries

\* "while i < 10 and not success"
GetDataFrameContinues(i, success) == i < MAX_ATTEMPTS /\ ~success

\* outcomes of a request that leave data behind
ProducedData == {"200", "data"}

InitRetry ==
    /\ SyncRest /\ chunk = ChunkRest /\ daily = DailyRest /\ once = OnceRest
    /\ meta = MetaRest /\ cli = CliRest /\ hyper = HyperRest
    /\ drift = DriftRest /\ ctor = ConstructRest /\ conc = ConcurrentRest
    /\ regel = RegelRest /\ start = StartRest /\ entsog = EntsogRest
    /\ eview = EViewRest /\ jao = JaoRest
    /\ \E fetcher \in {"crawl_opec_data", "getDataFrame"}, useJson \in BOOLEAN :
         /\ (fetcher = "crawl_opec_data") => ~useJson
         /\ retry = [fetcher |-> fetcher, useJson |-> useJson, pc |-> "loop",
                     retries |-> 0, i |-> 0, history |-> <<>>]

\* crawl_opec_data: one iteration of the loop and the loop test after it;
\* once the loop is left, "if not resp or resp.status_code > 200: raise".
\* scraper.get answers 200, answers with a status above 200, or raises
OpecAttempt ==
    /\ retry.fetcher = "crawl_opec_data" /\ retry.pc = "loop"
    /\ \E outcome \in {"200", "status > 200", "raises"} :
         LET made == [retry EXCEPT !.history = Append(@, outcome)]
         IN  retry' =
               IF outcome = "raises" THEN [made EXCEPT !.pc = "raised"]
               ELSE IF outcome = "200" THEN [made EXCEPT !.pc = "returned"]
               ELSE IF OpecContinues(retry.retries + 1)
               THEN [made EXCEPT !.retries = @ + 1]
               ELSE [made EXCEPT !.retries = @ + 1, !.pc = "raised"]
    /\ UNCHANGED notRetry

\* getDataFrame: one iteration of the loop and the loop test after it; once
\* the loop is left, "if data.empty: raise".  The request yields rows,
\* yields none, raises HTTPError (caught, with a sleep for a status >= 500),
\* raises InvalidURL (raised again) or raises anything else (not caught)
GetDataFrameAttempt ==
    /\ retry.fetcher = "getDataFrame" /\ retry.pc = "loop"
    /\ \E outcome \in {"data", "empty", "HTTPError < 500", "HTTPError >= 500",
                       "InvalidURL", "other exception"} :
         LET made == [retry EXCEPT !.history = Append(@, outcome), !.i = @ + 1]
             success == outcome \in {"data", "empty"}
         IN  retry' =
               IF outcome \in {"InvalidURL", "other exception"}
               THEN [made EXCEPT !.pc = "raised"]
               ELSE IF GetDataFrameContinues(made.i, success) THEN made
               ELSE IF outcome = "data" THEN [made EXCEPT !.pc = "returned"]
               ELSE [made EXCEPT !.pc = "raised"]
    /\ UNCHANGED notRetry

NextRetry == OpecAttempt \/ GetDataFrameAttempt

SpecRetry == InitRetry /\ [][NextRetry]_vars

\* the most requests a fetcher makes
RequestLimit == IF retry.fetcher = "crawl_opec_data" THEN max_retries ELSE MAX_ATTEMPTS

\* C30: a retrying fetcher makes at most 5 (crawl_opec_data) or 10
\* (getDataFrame) requests; it makes no request after one that produced
\* data and then returns; when its loop is over and no request produced
\* data it has raised; and while it loops a further request is still
\* within the limit, so the loop ends.
C30_BoundedRetries ==
    /\ Len(retry.history) <= RequestLimit
    /\ \A k \in 1..(Len(retry.history) - 1) : retry.history[k] \notin ProducedData
    /\ (retry.pc = "returned") <=>
          (retry.history # <<>> /\ retry.history[Len(retry.history)] \in ProducedData)
    /\ (retry.pc = "loop") => Len(retry.history) < RequestLimit
    /\ (retry.pc # "loop") => retry.pc \in {"returned", "raised"}

\* getDataFrame returned the rows of its tenth request after nine HTTP errors
C30_Witness ==
    /\ retry.fetcher = "getDataFrame" /\ retry.pc = "returned"
    /\ Len(retry.history) = MAX_ATTEMPTS

====
